---- MODULE Spec2Model ----
(***************************************************************************)
(* The game engine of app.py: map generation (make_map), placement (the    *)
(* session initialisation and the restart button), and the turn            *)
(* (attempt_move with can_move and enemy_step).  Rendering and the page    *)
(* layout are left out: they only read the state.                          *)
(*                                                                         *)
(* The state is st.session_state, kept as one record with the fields the   *)
(* code stores; last_call is how the last call of attempt_move left.       *)
(***************************************************************************)
EXTENDS Integers, Sequences, FiniteSets, TLC

VARIABLES session_state, last_call

vars == <<session_state, last_call>>

-----------------------------------------------------------------------------
(* Configuration of app.py                                                 *)

MAP_W == 28
MAP_H == 18
NumRooms == 6
NumScatter == 80
NumCoins == 7
TotalRunas == 3
NumEnemies == 4

(* Bounds of the model                                                     *)

\* of the seeds random.randint(0, 9999999) may return, the model takes the
\* first MaxSeed + 1 of SeedValues
MaxSeed == 1
\* random.choice (the unseeded module generator) returns one of the first
\* MaxPick + 1 elements of its argument
MaxPick == 1
\* committed moves per episode
MaxMoves == 6

Picks == 0..MaxPick

MsgInit == "Recoge 3 runas y vuelve al altar. Usa las flechas ← ↑ ↓ →"
MsgRestart == "Partida reiniciada. ¡Adelante!"
MsgBlocked == "Te has chocado."
MsgFragment == "Fragmento recogido."
MsgDefeat == "Un guardián te atrapó. FIN."
MsgVictory == "¡Victoria! Las runas han vuelto al altar."
MsgRune(n, total) == "Runa recogida (" \o ToString(n) \o "/" \o ToString(total) \o ")"

\* how a call of attempt_move leaves
NoCall == "no call yet"
Terminal == "return at line 199"
Blocked == "return at line 204"
Completed == "end of body"
UnboundLocalError == "UnboundLocalError"

NoException == "None"

-----------------------------------------------------------------------------
(* random.Random(seed): the Mersenne Twister of the runtime, and the       *)
(* library calls the code makes on it.  The generator itself is not        *)
(* computed: for each seed of the model, Streams holds its 32-bit outputs  *)
(* in order, each shifted right by 5 (the 27 bits random() takes of an     *)
(* output; getrandbits(k) takes the top k).  A generator made from the     *)
(* same seed starts again at output 0.                                     *)

SeedValues == <<2361118, 1740725, 2057886>>

Seeds == { SeedValues[n] : n \in 1..(MaxSeed + 1) }

Streams ==
  << <<33956577, 1982583, 42473289, 13326223, 13378556, 41167918, 7069288, 121855681,
       102388435, 83609761, 54305225, 13939327, 6102068, 92442323, 74572450, 122062845,
       83287905, 131606658, 105739133, 58220076, 97420570, 78640477, 69854223, 58442202,
       108278822, 16901243, 55447324, 5572322, 24599081, 104871906, 121665784, 89144386,
       33094033, 132545674, 81435075, 9595558, 78073749, 86235781, 21409402, 126368146,
       14533263, 114641644, 52626197, 112256948, 46287601, 53717599, 29150043, 119051408,
       114161036, 16530061, 46135419, 130036774, 32432866, 22814522, 8117231, 13577812,
       74660980, 54097983, 63652043, 42380652, 21807153, 70800525, 91625080, 78249491,
       108883360, 111614210, 85986152, 2184834, 43387604, 21304790, 31546314, 70817433,
       112970278, 129568922, 45874402, 87299432, 4370015, 8637655, 114206123, 56416734,
       133149211, 73842218, 65608645, 85909204, 22156924, 87370384, 52166366, 133058477,
       97056769, 105640900, 101404368, 91138113, 10846374, 110095763, 41688764, 101431383,
       102408686, 87738518, 67857135, 42928304, 82888656, 72870188, 26054078, 92935224,
       51900909, 55023649, 37934506, 90980196, 16615741, 122644436, 13874343, 59408316,
       59885504, 111006082, 53005131, 59751285, 85505540, 59495731, 58607860, 57209393,
       125350204, 95172231, 121807209, 121008027, 111704864, 98371571, 53288547, 43922597,
       116695569, 97208133, 114011210, 2857528, 17880717, 63020052, 89208716, 115389826,
       108295433, 42964115, 14749577, 87699830, 72752114, 3472751, 30795968, 110210606,
       80303472, 82602006, 114716706, 12225952, 63411743, 64513980, 111468954, 41142496,
       27751252, 106607423, 120251075, 454702, 58521248, 111536890, 10594698, 132948763,
       63356071, 61777894, 3216330, 66657972, 100312504, 44303570, 3493525, 39284635,
       66958836, 53884210, 70153374, 15275538, 91093339, 7960900, 16140488, 37936113,
       95486591, 3149024, 33819166, 66442013, 117764406, 107524669, 131995157, 19239867,
       27552657, 54942244, 72033959, 86053262, 83784052, 15354238, 92882271, 55248578,
       53202861, 28806960, 120289365, 82998698, 41947528, 82112825, 131258217, 119073565,
       56206630, 42316100, 49139078, 1035958, 99888364, 54591450, 132960161, 38926892,
       76544465, 450770, 108441538, 20812392, 72506900, 34680502, 47443354, 3031455,
       3550662, 94506679, 29195696, 1473373, 69866133, 78045060, 116854686, 92920882,
       71105275, 68296133, 12260211, 133689062, 81968221, 120367053, 14460495, 21320785,
       125299640, 122332739, 60028153, 104877210, 69665018, 130353059, 109221677, 102230124,
       21453761, 122328645, 78301734, 16630894, 84804970, 31738591, 131101759, 85106242,
       83732029, 9705600, 40970313, 11374616, 104737486, 61457050, 129009987, 83666281,
       52280733, 65518317, 91032684, 116119468, 73289997, 85024828, 64491807, 72838087,
       101497403, 16887607, 95693146, 93826517, 37991324, 89399002, 2622054, 100127762,
       110358008, 63422677, 73231397, 127154017, 15969156, 37866385, 50407803, 8326580,
       69107582, 48652438, 77908740, 110993136, 44866398, 20108647, 6366, 102636106,
       25741429, 132045338, 101126558, 69974808, 5549834, 82372831, 29500571, 9875092,
       33675252, 133246528, 64553587, 113459378, 35549857, 42014667, 107857453, 31266814,
       27397368, 42747285, 11434098, 58530917, 125494211, 20781443, 110651325, 77289438,
       60596622, 108817906, 130389422, 7808223, 128210461, 104421266, 88192338, 46172457,
       70991812, 42991584, 33586085, 17373871, 65373349, 102808106, 110021794, 89382338,
       7918304, 69412493, 28163072, 13161558, 12349301, 118902546, 58741097, 92041022,
       71563683, 14264186, 98134379, 1133362, 35924935, 67150313, 94777851, 89634443,
       37651433, 70157455, 79822084, 69095198, 24296093, 29115295, 86975965, 37052564,
       11036862, 104328148, 58879924, 32025337, 8224251, 63183533, 99705902, 72562151,
       50576230, 15648326, 77327235, 130416728, 68901963, 119107951, 91460300, 99975648,
       70261110, 44732494, 126324221, 27618603, 55786423, 67891322, 115252941, 118086430,
       40553231, 120048710, 123673555, 63179526, 77640068, 43248603, 19911393, 44261535,
       90124406, 46042632, 67784163, 97746370, 35708520, 30578905, 9857656, 38110871,
       11493672, 98721567, 123690233, 27977253, 7603869, 42741325, 90665300, 66523049,
       123956423, 98045313, 119556221, 3571426, 90432935, 105258091, 128013425, 111084901,
       47243005, 89511107, 34514464, 109879858, 36999867, 71408668, 110402295, 44004601,
       107051718, 31083088, 63348538, 4241629, 36299507, 1211656, 32944878, 11106402,
       2508439, 31033978, 46550903, 59143057, 81879680, 31659694, 18069042, 79712520,
       46221117, 131223701, 108472848, 65045197, 60250582, 75142764, 126570534, 61026999,
       102554417, 112221539, 98772800, 61150357, 129408310, 79192593, 72242195, 61920381,
       103628318, 15151843, 62031725, 64278307, 132301214, 105249319>>,
     <<130439308, 110700397, 26840494, 13714154, 6689763, 59741315, 13306376, 7077526,
       124971420, 52644226, 28271360, 94790762, 36083218, 56507949, 75561152, 94980398,
       64626908, 110055163, 884547, 41363540, 131144940, 22949644, 42800913, 126752911,
       84206640, 3131946, 46966389, 28089777, 91956180, 112190986, 72290142, 98316884,
       53322633, 36220098, 51059638, 36519012, 31407097, 41394640, 57665864, 36537620,
       46340055, 78587734, 120612146, 64964431, 45569427, 40414693, 125347056, 21404519,
       69906894, 75110972, 110517977, 58807913, 115966964, 114529903, 119406689, 125180340,
       94348388, 122458835, 27769339, 106608472, 12790398, 59403295, 14594887, 40531653,
       126607827, 32869176, 109713735, 47937204, 95864134, 36133994, 108600441, 9533252,
       60380894, 61510661, 119642840, 76202535, 107038853, 64996329, 4399822, 81110175,
       20773423, 93169265, 100610532, 34214696, 133210387, 60640245, 111744196, 87648448,
       13670664, 53103872, 15829067, 11282986, 22977548, 52459996, 45765653, 59188934,
       33740510, 85822614, 13798046, 65468655, 81672342, 39754854, 39167986, 84883613,
       48352066, 56588290, 7108194, 56786653, 20959414, 92993809, 132398912, 118495009,
       10490731, 67927409, 117282933, 80098733, 102269749, 56703853, 38712505, 67106588,
       50462871, 24998631, 103568643, 14914454, 387129, 55287315, 72586015, 40580430,
       34300272, 30746191, 101593807, 61226741, 124869770, 114876789, 74153016, 94161076,
       88826792, 55038147, 63415208, 47337042, 27218015, 71743133, 15384637, 93814556,
       109262761, 60505248, 5333310, 62272962, 48546738, 85744216, 42888098, 36734631,
       104623273, 61362408, 92567776, 96589190, 8947851, 20250092, 6523647, 34937103,
       123262343, 115111597, 62475303, 10737485, 94872741, 36996247, 69189978, 69219493,
       42565087, 10235261, 116558050, 55423869, 94339408, 63040751, 74591248, 116387327,
       104148519, 115530802, 120671222, 54446642, 31936988, 68156202, 93133983, 88208380,
       113354600, 35653540, 95024936, 133580307, 105999660, 65351654, 1020227, 93487209,
       13086788, 131789563, 32039403, 17724516, 76106957, 8493319, 96332597, 67020719,
       94973725, 10704196, 115799536, 52563718, 24602829, 111922272, 17420869, 14185827,
       69653956, 123665503, 11442189, 10104247, 43510952, 23749247, 82360264, 59371362,
       131048968, 87506295, 74838450, 20890733, 94711266, 42809604, 31041429, 69559616,
       105095793, 56593018, 119242960, 59338015, 118597829, 109968814, 77880593, 65000504,
       17472205, 63784212, 113111589, 16081072, 96387237, 74632210, 72031505, 63243786,
       12535406, 6993256, 14116307, 102695817, 51652058, 83333352, 108619284, 54657055,
       8424353, 48409153, 109475931, 15899895, 103400280, 107014123, 20646086, 26215011,
       119863039, 126088336, 42722809, 53294792, 58169191, 26803336, 13287015, 47419396,
       76652649, 116251033, 88561551, 90815776, 32075490, 79559380, 19797868, 122786532,
       80890131, 10424634, 106694318, 119603627, 83681466, 89345048, 14729563, 101067978,
       858257, 82002754, 61609000, 14050864, 67210957, 87836506, 12873492, 93709581,
       73963908, 53363694, 31001581, 32455794, 94978677, 59165281, 27600179, 52091106,
       44312538, 120689602, 55375815, 125454608, 74490899, 40718738, 117730025, 31948591,
       90946589, 112687415, 115244575, 97794304, 90717042, 70598536, 59405250, 89191531,
       130984014, 85804831, 112481139, 55450938, 69154350, 122723465, 123110962, 32171266,
       132702932, 132268158, 73312056, 74691449, 129297897, 30152103, 32138353, 106145309,
       80020836, 75553488, 79261215, 118953667, 26000650, 90136448, 33926359, 83445031,
       99297494, 18887623, 24818105, 71679272, 102512939, 92198180, 104849329, 1092946,
       19356937, 47234356, 27501471, 52753274, 7288825, 74723504, 127709677, 16008102,
       107824340, 83544737, 37367334, 100665434, 114382180, 120476833, 23714126, 93726970,
       124557492, 29222567, 125875999, 106184897, 15889681, 73493729, 28601481, 27835544,
       2027422, 25894628, 120333032, 22529672, 95770408, 33986331, 120887761, 40090837,
       118558214, 75639492, 114882314, 101863328, 15523211, 107039151, 131500498, 133743142,
       37244670, 89606156, 90812422, 9616796, 69785937, 46619250, 78138071, 30009938,
       46794843, 68200553, 94684840, 106149000, 134127202, 38432853, 75548241, 91631133,
       27965167, 117448695, 132732391, 67434859, 26951983, 66049639, 33555551, 67648846,
       44361783, 120595436, 16210936, 59990221, 102831914, 41619359, 69733792, 34604827,
       173804, 26467683, 2667393, 77696970, 125032075, 812868, 15314536, 10416996,
       44534150, 57220001, 108037008, 53517374, 93766066, 11517492, 72965136, 125892197,
       28014335, 24072972, 117117808, 37294506, 36102066, 123625712, 28148315, 14680531,
       15537075, 122086669, 47980190, 118534233, 117630207, 103652320, 64642372, 131596835,
       80295308, 25375576, 102367812, 87167209, 8706820, 35189160, 130416599, 55744476,
       15854446, 43507018, 13687663, 73831409, 108112815, 74979474, 65211798, 27373183,
       59156555>>,
     <<105643011, 54634199, 6573165, 131998952, 6115399, 139007, 99673697, 6235852,
       70297798, 50542691, 72374855, 93581717, 44983751, 62548878, 49259713, 110227766,
       63225659, 50834349, 97913914, 134029038, 7169648, 85784123, 60266771, 14758485,
       57805348, 7501515, 85630038, 43837955, 110899315, 65353141, 96136431, 8727306,
       78649129, 37694711, 8813719, 127914701, 58427845, 93790751, 62309740, 125601900,
       40953587, 49646204, 102884868, 103781285, 76902731, 46909405, 14238817, 64522576,
       80804499, 11860013, 96660021, 130719744, 77082634, 112677038, 40105714, 83191616,
       4331488, 74962828, 87295887, 34461987, 1512905, 3692966, 80292821, 116518128,
       62071848, 40722192, 54693563, 113553829, 26407815, 82275354, 85589289, 53113942,
       102514366, 60797274, 64508141, 102865381, 77800319, 65229482, 98746250, 75242440,
       110569229, 27065329, 92083088, 20591786, 1818471, 25041526, 34070298, 89491904,
       46213095, 29979142, 48419645, 129519007, 46233403, 17389879, 46595122, 104433388,
       66439462, 76932672, 48152480, 131213841, 118041209, 23263095, 121364126, 88405352,
       60220577, 127258207, 131043213, 105032901, 70675071, 40500399, 56208204, 114679854,
       30832143, 123320947, 108336599, 89898660, 25435063, 13318677, 122097778, 132250491,
       73421584, 35520835, 12025483, 63342707, 15977524, 60593788, 126355437, 93797220,
       1427701, 759311, 10439906, 120108263, 90673420, 123480318, 72757992, 111231753,
       125637534, 97239216, 85730378, 103442107, 57563061, 116324338, 43796836, 85550368,
       131655656, 90757013, 66382121, 40272225, 68596192, 93155591, 471283, 5560978,
       97679115, 132575283, 79928902, 97641390, 55318605, 21051187, 13912115, 87094537,
       32015246, 30996151, 123316972, 3055197, 77973243, 26357505, 83148734, 99074688,
       57563268, 8702076, 66950688, 76464016, 23767586, 50599446, 126218408, 124934150,
       61823028, 93764048, 53177247, 108827439, 15042316, 18495194, 21164198, 13630751,
       116334758, 27592214, 55963298, 98102685, 131193188, 19026631, 107467800, 127859096,
       38519350, 1985188, 80644647, 38885776, 94809817, 13263132, 59256734, 30984212,
       6327839, 66190208, 127555410, 107138942, 76901727, 30500134, 99342226, 122199090,
       67666811, 111730952, 109116437, 58219702, 34972506, 120247782, 128040998, 37612734,
       80701972, 97588564, 88187881, 124875208, 12659690, 48283337, 106828832, 64034182,
       115914429, 94142466, 66208396, 117973421, 105646811, 41030455, 116720972, 30746827,
       23743674, 67432878, 33089176, 63772971, 45402515, 91985721, 1838727, 55821695,
       66945037, 133688389, 125663231, 83756693, 30410790, 51872832, 35206875, 19571945,
       102292852, 18242264, 26270872, 78817017, 53063244, 96796006, 50193035, 81313612,
       6181365, 15868722, 111169560, 16164001, 33587163, 94358361, 126022160, 8691341,
       98030108, 29175742, 84292559, 116457562, 17850688, 78995590, 100672584, 75059340,
       31056175, 109576773, 4942812, 131582402, 120774497, 126397735, 75954458, 114361903,
       109276699, 67970820, 97779166, 85930903, 69177944, 128033458, 74198679, 83831707,
       126488513, 87052940, 133290874, 13811109, 66442076, 102294785, 1184166, 50336144,
       32371472, 104295698, 23451191, 55213383, 87668554, 26290529, 2906900, 79138350,
       35068306, 65244832, 115479429, 9956644, 107866160, 120890736, 66407219, 56658116,
       100558477, 27314938, 58371297, 71059042, 10853726, 92193657, 33808577, 29833528,
       77566941, 90370189, 89102044, 18230401, 92021527, 32002765, 25040839, 118926323,
       21729317, 66314884, 94212468, 58992086, 94739935, 3746402, 127511701, 1520463,
       38276431, 23408133, 37454929, 110006741, 94410899, 80953294, 123832135, 10640884,
       89433837, 17286906, 12874108, 131378689, 83498612, 133249429, 116037191, 56970012,
       8863530, 100256800, 126908925, 21070606, 90560708, 102156624, 120589046, 17896478,
       104133841, 99595939, 108834685, 29840821, 73778119, 90978443, 27736580, 123979197,
       46876498, 126752382, 38528150, 74885763, 65492791, 67751574, 84395316, 85252853,
       19824914, 33853883, 11322186, 100589379, 124946584, 72293721, 109603450, 23245931,
       23251007, 762151, 39109756, 10984172, 52253048, 56936081, 53735884, 102570939,
       46037719, 21370142, 46121329, 632236, 4966311, 37174883, 29918109, 37336529,
       82624129, 125557110, 125746093, 92048417, 21199471, 120709099, 34671963, 86304750,
       92714981, 80237402, 124390212, 44860880, 4700278, 56725037, 756971, 126315278,
       17326725, 1120096, 99441167, 98715256, 23178755, 96057487, 14092225, 110494941,
       4297339, 7493848, 60362747, 25908129, 36098197, 89081672, 132919450, 42279225,
       16663710, 104448678, 98646512, 105776622, 83849846, 98020561, 97929248, 90483975,
       97372755, 89567535, 75632442, 32460102, 82267188, 129149723, 33847657, 98110587,
       114158829, 104791951, 133115403, 13068012, 81916356, 65249366, 95844464, 70357621,
       4293966, 131319770, 63421088, 99323185, 20451820, 82879140, 41565959, 104828313,
       102254513, 11562481, 111607275, 100113643, 10716473, 121001536, 88289440, 15136312,
       111704052, 45304330, 77024996, 14878103, 48990948, 133863781>> >>

SeedIndex(seed) == CHOOSE n \in DOMAIN SeedValues : SeedValues[n] = seed

\* random.Random(seed): the generator object, as the sequence of its outputs.
\* The code holds it in rnd (line 101) and rng (lines 151 and 322); where it
\* stands in the sequence is the index the calls below take and return.
Random(seed) == Streams[SeedIndex(seed)]

\* genrand_uint32() >> 5, for the i-th output (from 0) of the generator
Raw(rnd, i) == rnd[i + 1]

\* getrandbits(k) for k <= 27, from output i: genrand_uint32() >> (32 - k)
getrandbits(rnd, i, k) == Raw(rnd, i) \div (2^(27 - k))

\* n.bit_length()
RECURSIVE bit_length(_)
bit_length(n) == IF n = 0 THEN 0 ELSE 1 + bit_length(n \div 2)

\* _randbelow(n): r = getrandbits(k); while r >= n: r = getrandbits(k).
\* The value, and the index of the next output.
RECURSIVE randbelow(_, _, _)
randbelow(rnd, i, n) ==
  LET r == getrandbits(rnd, i, bit_length(n))
  IN  IF r >= n THEN randbelow(rnd, i + 1, n)
      ELSE [value |-> r, next |-> i + 1]

\* rnd.randint(a, b) = a + _randbelow(b - a + 1), from output i
randint(rnd, i, a, b) ==
  LET d == randbelow(rnd, i, b - a + 1)
  IN  [value |-> a + d.value, next |-> d.next]

\* rnd.random() < 0.12, from outputs i and i + 1: random() is
\* (a * 2^26 + b) / 2^53 with a = output >> 5 and b = next output >> 6, and
\* the float 0.12 is (16106127 * 2^26 + 24159191) / 2^53
random_below_012(rnd, i) ==
  LET a == Raw(rnd, i)
      b == Raw(rnd, i + 1) \div 2
  IN  a < 16106127 \/ (a = 16106127 /\ b < 24159191)

\* smallest e with 4^e >= n
RECURSIVE CeilLog4From(_, _)
CeilLog4From(n, e) == IF 4^e >= n THEN e ELSE CeilLog4From(n, e + 1)

\* random.sample: the size up to which it copies the population into a pool
sample_setsize(k) == 21 + (IF k > 5 THEN 4^CeilLog4From(3 * k, 0) ELSE 0)

\* j = randbelow(n - t); result[t] = pool[j]; pool[j] = pool[n - t - 1]
RECURSIVE sample_pool(_, _, _, _, _, _)
sample_pool(pool, n, k, t, rnd, i) ==
  IF t = k THEN [result |-> <<>>, next |-> i]
  ELSE LET d == randbelow(rnd, i, n - t)
           rest == sample_pool([pool EXCEPT ![d.value + 1] = pool[n - t]], n, k,
                               t + 1, rnd, d.next)
       IN  [result |-> <<pool[d.value + 1]>> \o rest.result, next |-> rest.next]

\* j = randbelow(n); while j in selected: j = randbelow(n)
RECURSIVE sample_redraw(_, _, _, _)
sample_redraw(n, selected, rnd, i) ==
  LET d == randbelow(rnd, i, n)
  IN  IF d.value \in selected THEN sample_redraw(n, selected, rnd, d.next)
      ELSE [j |-> d.value, next |-> d.next]

RECURSIVE sample_set(_, _, _, _, _, _)
sample_set(population, k, t, selected, rnd, i) ==
  IF t = k THEN [result |-> <<>>, next |-> i]
  ELSE LET d == sample_redraw(Len(population), selected, rnd, i)
           rest == sample_set(population, k, t + 1, selected \cup {d.j}, rnd, d.next)
       IN  [result |-> <<population[d.j + 1]>> \o rest.result, next |-> rest.next]

\* rnd.sample(population, k), from output i: the k elements in the order
\* drawn, and the index of the next output
sample(population, k, rnd, i) ==
  IF Len(population) <= sample_setsize(k)
    THEN sample_pool(population, Len(population), k, 0, rnd, i)
    ELSE sample_set(population, k, 0, {}, rnd, i)

-----------------------------------------------------------------------------
(* make_map                                                                *)

Min(a, b) == IF a < b THEN a ELSE b
Max(a, b) == IF a > b THEN a ELSE b

\* lines 112-117: the rooms k, k+1, ... as (rx, ry, rw, rh), drawn from
\* output i on, and the index of the output after the last room
RECURSIVE rooms_from(_, _, _)
rooms_from(rnd, k, i) ==
  IF k = NumRooms THEN [rooms |-> <<>>, next |-> i]
  ELSE LET rw   == randint(rnd, i, 4, 8)
           rh   == randint(rnd, rw.next, 3, 6)
           rx   == randint(rnd, rh.next, 2, MAP_W - rw.value - 2)
           ry   == randint(rnd, rx.next, 2, MAP_H - rh.value - 2)
           rest == rooms_from(rnd, k + 1, ry.next)
       IN  [rooms |-> << <<rx.value, ry.value, rw.value, rh.value>> >> \o rest.rooms,
            next  |-> rest.next]

\* the list rooms of line 111, as line 117 has filled it
rooms(seed) == rooms_from(Random(seed), 0, 0).rooms

\* the k-th room (rx, ry, rw, rh), k = 0..5
room(seed, k) == rooms(seed)[k + 1]

\* cells the room loop writes 0
room_cells(rs) ==
  UNION { { <<xx, yy>> : xx \in rs[k][1]..(rs[k][1] + rs[k][3] - 1),
                         yy \in rs[k][2]..(rs[k][2] + rs[k][4] - 1) }
          : k \in DOMAIN rs }

\* lines 122-126: the cells the scatter iterations j, j+1, ... write 1, from
\* output i on; an iteration draws x, y and random() (two outputs), wall or
\* no wall
RECURSIVE scatter_from(_, _, _)
scatter_from(rnd, j, i) ==
  IF j = NumScatter THEN {}
  ELSE LET x == randint(rnd, i, 1, MAP_W - 2)
           y == randint(rnd, x.next, 1, MAP_H - 2)
       IN  (IF random_below_012(rnd, y.next) THEN {<<x.value, y.value>>} ELSE {})
             \cup scatter_from(rnd, j + 1, y.next + 2)

\* cells the scatter loop writes 1: it draws after the last room
scatter_cells(seed) ==
  scatter_from(Random(seed), 0, rooms_from(Random(seed), 0, 0).next)

\* lines 128-137: cells the L-shaped corridor from room a to the next room b
\* writes 0
corridor(a, b) ==
  LET x1 == a[1] + (a[3] \div 2)
      y1 == a[2] + (a[4] \div 2)
      x2 == b[1] + (b[3] \div 2)
      y2 == b[2] + (b[4] \div 2)
  IN  { <<x, y1>> : x \in Min(x1, x2)..Max(x1, x2) } \cup
      { <<x2, y>> : y \in Min(y1, y2)..Max(y1, y2) }

corridor_cells(rs) == UNION { corridor(rs[i], rs[i + 1]) : i \in 1..(Len(rs) - 1) }

\* a make_map whose second border loop (lines 107-109) is missing
border_walls_rows_only(x, y) ==
  IF y = 0 \/ y = MAP_H - 1 THEN 1 ELSE 0

\* the border loops: 1 on the four edges of an all-0 grid
border_walls(x, y) ==
  IF x = 0 \/ x = MAP_W - 1 \/ y = 0 \/ y = MAP_H - 1 THEN 1 ELSE 0

\* a make_map that scatters the walls (lines 122-126) after it carves the
\* corridors (lines 128-137)
make_map_scatter_last(seed) ==
  LET rc == room_cells(rooms(seed))
      sc == scatter_cells(seed)
      cc == corridor_cells(rooms(seed))
  IN  [row \in 1..MAP_H |->
        [col \in 1..MAP_W |->
          LET x == col - 1
              y == row - 1
          IN  IF <<x, y>> \in sc THEN 1
              ELSE IF <<x, y>> \in cc THEN 0
              ELSE IF <<x, y>> \in rc THEN 0
              ELSE IF x = 0 \/ x = MAP_W - 1 \/ y = 0 \/ y = MAP_H - 1 THEN 1 ELSE 0]]

\* The grid after the four phases; a later write wins over an earlier one:
\* corridors over scatter over rooms over the border.  The grid is a list
\* of MAP_H rows of MAP_W cells, 0 Floor and 1 Wall; the lists of the model
\* start at 1, so that m[y][x] of the code is cell(m, x, y).
make_map(seed) ==
  LET rc == room_cells(rooms(seed))
      sc == scatter_cells(seed)
      cc == corridor_cells(rooms(seed))
  IN  [row \in 1..MAP_H |->
        [col \in 1..MAP_W |->
          LET x == col - 1
              y == row - 1
          IN  IF <<x, y>> \in cc THEN 0
              ELSE IF <<x, y>> \in sc THEN 1
              ELSE IF <<x, y>> \in rc THEN 0
              ELSE border_walls(x, y)]]

\* mapdata[y][x]
cell(mapdata, x, y) == mapdata[y + 1][x + 1]

\* every cell, y outer and x inner
AllCells == [i \in 1..(MAP_W * MAP_H) |-> <<(i - 1) % MAP_W, (i - 1) \div MAP_W>>]

free_positions(mapdata) == SelectSeq(AllCells, LAMBDA p : cell(mapdata, p[1], p[2]) = 0)

Range(s) == { s[i] : i \in DOMAIN s }

-----------------------------------------------------------------------------
(* The session initialisation and the restart button (the same code but    *)
(* for the message).  pc and ac are what the two random.choice calls of    *)
(* the unseeded module generator return, as 0-based indices.               *)

altar_band(free) ==
  SelectSeq(free, LAMBDA p :
              p[1] < 3 \/ p[1] > MAP_W - 4 \/ p[2] < 3 \/ p[2] > MAP_H - 4)

new_episode(seed, pc, ac, n_enemies) ==
  LET rng == Random(seed)
      \* lines 148-156 on the grid m of line 147
      placed(m) ==
        LET free   == free_positions(m)
            player == free[pc + 1]
            altar  == altar_band(free)[ac + 1]
            cs     == sample(SelectSeq(free, LAMBDA p : p # player /\ p # altar),
                             NumCoins, rng, 0)
            coins  == cs.result
            rs     == sample(coins, TotalRunas, rng, cs.next)
            es     == sample(SelectSeq(free, LAMBDA p :
                                         p \notin Range(coins) /\ p # player /\ p # altar),
                             n_enemies, rng, rs.next)
        IN  [ seed            |-> seed,
              player          |-> player,
              altar           |-> altar,
              coins           |-> coins,
              total_runas     |-> TotalRunas,
              runas_positions |-> Range(rs.result),
              enemies         |-> es.result,
              runas_collected |-> 0,
              moves           |-> 0,
              msg             |-> MsgInit,
              victory         |-> FALSE,
              game_over       |-> FALSE,
              map             |-> m ]
  IN  placed(make_map(seed))

EnemyCounts == {0, NumEnemies}

\* the episodes of the model, computed once
Episodes ==
  [seed \in Seeds, pc \in Picks, ac \in Picks, ne \in EnemyCounts |->
     new_episode(seed, pc, ac, ne)]

-----------------------------------------------------------------------------
(* The turn                                                                *)

\* a can_move that checks the bounds and not the cell
can_move_bounds_only(mapdata, pos) ==
  ~(pos[1] < 0 \/ pos[2] < 0 \/ pos[1] >= MAP_W \/ pos[2] >= MAP_H)

can_move(mapdata, pos) ==
  LET x == pos[1]
      y == pos[2]
  IN  IF x < 0 \/ y < 0 \/ x >= MAP_W \/ y >= MAP_H THEN FALSE
      ELSE cell(mapdata, x, y) = 0

\* Line 191 assigns np in the body, which makes np a local name of the whole
\* function: the np.sign of line 176 reads that local before any assignment,
\* and every call leaves with UnboundLocalError before it computes a step.
enemy_step(e, player, mapdata) == [exc |-> UnboundLocalError, value |-> e]

\* list.remove(v): the first occurrence
RECURSIVE list_remove(_, _)
list_remove(l, v) ==
  IF l = <<>> THEN <<>>
  ELSE IF Head(l) = v THEN Tail(l)
  ELSE <<Head(l)>> \o list_remove(Tail(l), v)

\* a pickup without the test of line 211: every pickup counts as a rune
pickup_counts_fragments(s) ==
  IF s.player \in Range(s.coins)
    THEN [s EXCEPT !.coins = list_remove(s.coins, s.player),
                   !.runas_collected = @ + 1,
                   !.msg = MsgRune(s.runas_collected + 1, s.total_runas)]
    ELSE s

\* a pickup without the remove of line 210
pickup_keeps_coin(s) ==
  IF s.player \in Range(s.coins)
    THEN IF s.player \in s.runas_positions
           THEN [s EXCEPT !.runas_collected = @ + 1,
                          !.msg = MsgRune(s.runas_collected + 1, s.total_runas)]
           ELSE [s EXCEPT !.msg = MsgFragment]
    ELSE s

\* lines 208-215
pickup(s) ==
  IF s.player \in Range(s.coins)
    THEN LET s1 == [s EXCEPT !.coins = list_remove(s.coins, s.player)]
         IN  IF s.player \in s.runas_positions
               THEN [s1 EXCEPT !.runas_collected = @ + 1,
                               !.msg = MsgRune(s.runas_collected + 1, s.total_runas)]
               ELSE [s1 EXCEPT !.msg = MsgFragment]
    ELSE s

\* lines 221-224
collision(s) ==
  IF s.player \in Range(s.enemies)
    THEN [s EXCEPT !.game_over = TRUE, !.msg = MsgDefeat]
    ELSE s

\* a win check that forgets the rune count
victory_check_altar_only(s) ==
  IF s.player = s.altar
    THEN [s EXCEPT !.victory = TRUE, !.game_over = TRUE, !.msg = MsgVictory]
    ELSE s

\* lines 225-229
victory_check(s) ==
  IF s.runas_collected >= s.total_runas /\ s.player = s.altar
    THEN [s EXCEPT !.victory = TRUE, !.game_over = TRUE, !.msg = MsgVictory]
    ELSE s

\* a commit that forgets line 206
commit_move_uncounted(s, n) == [s EXCEPT !.player = n, !.msg = ""]

\* lines 205-207
commit_move(s, n) == [s EXCEPT !.player = n, !.moves = @ + 1, !.msg = ""]

\* lines 216-220: the list of enemy_step results, one per enemy, in order
enemy_steps(s) ==
  [i \in DOMAIN s.enemies |-> enemy_step(s.enemies[i], s.player, s.map)]

\* lines 200-229: the call from line 200 on, in a state that is not terminal
turn(s, dx, dy) ==
  LET n == <<s.player[1] + dx, s.player[2] + dy>>
  IN  IF ~can_move(s.map, n)
        THEN [st |-> [s EXCEPT !.msg = MsgBlocked], exit |-> Blocked]
        ELSE
          LET s2    == pickup(commit_move(s, n))
              steps == enemy_steps(s2)
          IN  IF \E i \in DOMAIN steps : steps[i].exc # NoException
                THEN \* the loop of line 218 is left at the first enemy, with
                     \* the move and the pickup already stored
                     [st |-> s2, exit |-> UnboundLocalError]
                ELSE
                  LET s3 == [s2 EXCEPT !.enemies =
                               [i \in DOMAIN steps |-> steps[i].value]]
                  IN  [st |-> victory_check(collision(s3)), exit |-> Completed]

\* an attempt_move without line 199
attempt_move_unguarded(s, dx, dy) == turn(s, dx, dy)

\* attempt_move(dx, dy) on session state s: the state the call leaves, and
\* how it left (a return at line 199 or 204, the end of the body, or the
\* exception it raised)
attempt_move(s, dx, dy) ==
  IF s.game_over THEN [st |-> s, exit |-> Terminal]
  ELSE turn(s, dx, dy)

-----------------------------------------------------------------------------
(* The page: the four arrow buttons and the restart button                 *)

\* lines 289-297: the deltas of the four buttons
Cardinal == { <<0, -1>>, <<-1, 0>>, <<1, 0>>, <<0, 1>> }

Call(dx, dy) ==
  /\ session_state.game_over \/ session_state.moves < MaxMoves
  /\ LET r == attempt_move(session_state, dx, dy)
     IN  /\ session_state' = r.st
         /\ last_call' = r.exit

Button == \E d \in Cardinal : Call(d[1], d[2])

\* a restart that forgets lines 329-330 and 332-333 (the counters and flags)
Restart_keeps_progress ==
  \E seed \in Seeds, pc \in Picks, ac \in Picks :
    /\ session_state' =
         [Episodes[seed, pc, ac, NumEnemies] EXCEPT
            !.msg = MsgRestart,
            !.runas_collected = session_state.runas_collected,
            !.moves = session_state.moves,
            !.victory = session_state.victory,
            !.game_over = session_state.game_over]
    /\ last_call' = NoCall

Restart ==
  \E seed \in Seeds, pc \in Picks, ac \in Picks :
    /\ session_state' = [Episodes[seed, pc, ac, NumEnemies] EXCEPT !.msg = MsgRestart]
    /\ last_call' = NoCall

Init ==
  \E seed \in Seeds, pc \in Picks, ac \in Picks :
    /\ session_state = Episodes[seed, pc, ac, NumEnemies]
    /\ last_call = NoCall

Next == Button \/ Restart

Spec == Init /\ [][Next]_vars

-----------------------------------------------------------------------------
(* The turn engine on its own: attempt_move called with any delta in       *)
(* -1..1 on each axis, on episodes generated with the configured number of *)
(* enemies or with none (the enemy loop of line 218 then has no            *)
(* iteration, and the checks of lines 221-229 are reached).                *)

Deltas == (-1..1) \X (-1..1)

AnyCall == \E d \in Deltas : Call(d[1], d[2])

InitEngine ==
  \E seed \in Seeds, pc \in Picks, ac \in Picks, ne \in EnemyCounts :
    /\ session_state = Episodes[seed, pc, ac, ne]
    /\ last_call = NoCall

NextEngine == AnyCall

SpecEngine == InitEngine /\ [][NextEngine]_vars

-----------------------------------------------------------------------------
(* The page on any episode of the engine: the four buttons and the restart *)
(* button, from episodes with the configured number of enemies or with     *)
(* none, so that the restart button is also pressed in terminal states.    *)

SpecRestart == InitEngine /\ [][Next]_vars

-----------------------------------------------------------------------------
(* Properties                                                              *)

S == session_state

\* the cell a call with delta d asks for
Candidate(s, d) == <<s.player[1] + d[1], s.player[2] + d[2]>>

InBounds(pos) == pos[1] \in 0..(MAP_W - 1) /\ pos[2] \in 0..(MAP_H - 1)

IsFloor(mapdata, pos) == InBounds(pos) /\ cell(mapdata, pos[1], pos[2]) = 0

\* the four cardinal neighbours of a cell
Neighbours(p) ==
  { <<p[1] + 1, p[2]>>, <<p[1] - 1, p[2]>>, <<p[1], p[2] + 1>>, <<p[1], p[2] - 1>> }

\* the state is as the initialisation or the restart button left it
Fresh(s) == s.msg \in {MsgInit, MsgRestart}

\* everything but the message
Frozen(s) == [s EXCEPT !.msg = ""]

\* C1: a turn that ends with an enemy on the player's cell ends with
\* game_over = true and victory = false, also on the altar with all runes.
C1_LossOnCapture ==
  [][\A d \in Cardinal :
       ( /\ ~S.game_over
         /\ IsFloor(S.map, Candidate(S, d))
         /\ Call(d[1], d[2])
         /\ S'.player \in Range(S'.enemies) )
       => (S'.game_over /\ ~S'.victory)]_vars

\* C2: a committed move that ends on the altar with runes_collected >=
\* total_runes and no enemy on the player's cell ends with game_over = true
\* and victory = true.
C2_WinOnAltar ==
  [][\A d \in Cardinal :
       ( /\ ~S.game_over
         /\ IsFloor(S.map, Candidate(S, d))
         /\ Call(d[1], d[2])
         /\ S'.player = S'.altar
         /\ S'.runas_collected >= S'.total_runas
         /\ S'.player \notin Range(S'.enemies) )
       => (S'.game_over /\ S'.victory)]_vars

\* C3: once game_over is true, a call of attempt_move with any delta leaves
\* every field but the message unchanged.
C3_TerminalIdempotence ==
  [][\A d \in Deltas :
       (S.game_over /\ Call(d[1], d[2])) => Frozen(S') = Frozen(S)]_vars

\* a terminal state in which a further call has returned at line 199
C3_Witness == S.game_over /\ last_call = Terminal

\* C4: in a state that is not terminal, a call whose candidate cell is out of
\* bounds or a Wall changes nothing but the message, which becomes the
\* blocked-move message: no move, no count, no pickup, no enemy step.
C4_BlockedMove ==
  [][\A d \in Cardinal :
       ( /\ ~S.game_over
         /\ ~IsFloor(S.map, Candidate(S, d))
         /\ Call(d[1], d[2]) )
       => S' = [S EXCEPT !.msg = MsgBlocked]]_vars

\* a move against a wall was rejected after a move was committed
C4_Witness == last_call = Blocked /\ S.msg = MsgBlocked /\ S.moves > 0

\* C5: victory turns true only in a step that ends with runes_collected >=
\* total_runes on the altar, and victory = true implies game_over = true.
C5_WinPrecondition ==
  /\ [](S.victory => S.game_over)
  /\ [][(~S.victory /\ S'.victory)
          => (S'.runas_collected >= S'.total_runas /\ S'.player = S'.altar)]_vars

\* a turn has set victory
C5_Witness == S.victory /\ S.game_over /\ last_call = Completed

\* C6: a call of attempt_move never lowers moves or runes_collected, and
\* raises moves by exactly 1 when it commits a move (state not terminal,
\* candidate cell Floor) and by 0 otherwise.
C6_Monotonic ==
  [][\A d \in Cardinal :
       Call(d[1], d[2])
       => ( /\ S'.moves = S.moves +
                 (IF ~S.game_over /\ IsFloor(S.map, Candidate(S, d)) THEN 1 ELSE 0)
            /\ S'.runas_collected >= S.runas_collected )]_vars

\* several committed moves, one of them onto a rune
C6_Witness == S.moves >= 2 /\ S.runas_collected >= 1

\* C7: after the initialisation or a restart the player start, the altar,
\* the pickups and the enemies are pairwise distinct Floor cells.
C7_Disjoint ==
  Fresh(S) =>
    LET all == <<S.player, S.altar>> \o S.coins \o S.enemies
    IN  /\ \A i, j \in DOMAIN all : i # j => all[i] # all[j]
        /\ \A i \in DOMAIN all : IsFloor(S.map, all[i])

\* C8: two runs of generation and placement with the same seed (a restart
\* that draws the seed of the episode it replaces, before any move) give the
\* same grid, player start, altar, pickups, rune flags and enemies.
C8_Deterministic ==
  [][(Fresh(S) /\ Fresh(S') /\ S'.msg = MsgRestart /\ S'.seed = S.seed)
       => ( /\ S'.map = S.map
            /\ S'.player = S.player
            /\ S'.altar = S.altar
            /\ Range(S'.coins) = Range(S.coins)
            /\ S'.runas_positions = S.runas_positions
            /\ Range(S'.enemies) = Range(S.enemies) )]_vars

\* C9: every cell of the first and last row and column of the grid is Wall,
\* after make_map and after any sequence of turns.
C9_Border ==
  \A x \in 0..(MAP_W - 1), y \in 0..(MAP_H - 1) :
    (x = 0 \/ x = MAP_W - 1 \/ y = 0 \/ y = MAP_H - 1) => cell(S.map, x, y) = 1

\* a generated grid with interior walls, three moves into the episode
C9_Witness ==
  /\ S.moves >= 3
  /\ \E x \in 1..(MAP_W - 2), y \in 1..(MAP_H - 2) : cell(S.map, x, y) = 1

\* C10: a call of attempt_move with a delta that is not one of the four
\* cardinal unit steps leaves every field unchanged.
C10_InvalidDirection ==
  [][\A d \in Deltas \ Cardinal :
       Call(d[1], d[2]) => S' = S]_vars

\* what lines 319-334 leave: the counters and flags of a new episode, the
\* grid of the recorded seed, and on it a placement of the configured sizes
\* drawn from the generator of that seed
Regenerated(s) ==
  LET free   == free_positions(s.map)
      coins  == sample(SelectSeq(free, LAMBDA p : p # s.player /\ p # s.altar),
                       NumCoins, Random(s.seed), 0)
  IN  /\ s.moves = 0
      /\ s.runas_collected = 0
      /\ ~s.game_over
      /\ ~s.victory
      /\ s.map = make_map(s.seed)
      /\ s.player \in Range(free)
      /\ s.altar \in Range(altar_band(free))
      /\ s.coins = coins.result
      /\ Cardinality(Range(s.coins)) = NumCoins
      /\ s.total_runas = TotalRunas
      /\ Cardinality(s.runas_positions) = TotalRunas
      /\ s.runas_positions \subseteq Range(s.coins)
      /\ Len(s.enemies) = NumEnemies
      /\ Cardinality(Range(s.enemies)) = NumEnemies
      /\ Range(s.enemies) \subseteq
           Range(free) \ (Range(s.coins) \cup {s.player, s.altar})

\* C11: from any reachable state, terminal or not, the restart button leaves
\* moves = 0, runes_collected = 0, game_over = false, victory = false, the
\* grid of the newly recorded seed and a placement on it with the configured
\* numbers of pickups, runes and enemies, all in one step: a restart step
\* ends with the restart message, and every state with that message is a
\* regenerated one.
C11_RestartReplaces ==
  /\ [][Restart => (S'.msg = MsgRestart /\ last_call' = NoCall)]_vars
  /\ [](S.msg = MsgRestart => Regenerated(S))

\* a restarted episode
C11_Witness == S.msg = MsgRestart /\ last_call = NoCall /\ Regenerated(S)

\* C12: a committed move onto a pickup removes exactly that pickup, and adds
\* 1 to runes_collected if the position is flagged a rune and 0 if it is a
\* fragment; a committed move onto a cell with no pickup changes neither; and
\* no call of attempt_move ever puts a pickup back.
C12_PickupResolution ==
  [][\A d \in Cardinal :
       Call(d[1], d[2]) =>
         LET n == Candidate(S, d)
         IN  /\ Range(S'.coins) \subseteq Range(S.coins)
             /\ (~S.game_over /\ IsFloor(S.map, n)) =>
                   IF n \in Range(S.coins)
                     THEN /\ Range(S'.coins) = Range(S.coins) \ {n}
                          /\ Len(S'.coins) = Len(S.coins) - 1
                          /\ S'.runas_collected = S.runas_collected +
                                (IF n \in S.runas_positions THEN 1 ELSE 0)
                     ELSE /\ S'.coins = S.coins
                          /\ S'.runas_collected = S.runas_collected]_vars

\* a rune and a fragment have both been picked up
C12_Witness ==
  /\ S.runas_collected >= 1
  /\ Len(S.coins) < NumCoins - S.runas_collected

\* C13: a call of attempt_move in a state that is not terminal either
\* rejects the move (a return at line 204, nothing but the message changed)
\* or runs to the end of its body: the move committed, the pickup resolved,
\* every enemy stepped and both terminal checks made.
C13_TurnCompletion ==
  [][\A d \in Cardinal :
       (~S.game_over /\ Call(d[1], d[2])) =>
         \/ last_call' = Blocked /\ S' = [S EXCEPT !.msg = MsgBlocked]
         \/ last_call' = Completed]_vars

\* C14: on a committed move every enemy, in order, is replaced by
\* enemy_step of its own position before the turn, the player's new position
\* and the grid, and the number of enemies does not change.
C14_EnemyResolution ==
  [][\A d \in Cardinal :
       ( /\ ~S.game_over
         /\ IsFloor(S.map, Candidate(S, d))
         /\ Call(d[1], d[2]) )
       => /\ Len(S'.enemies) = Len(S.enemies)
          /\ \A i \in DOMAIN S.enemies :
               LET r == enemy_step(S.enemies[i], S'.player, S.map)
               IN  r.exc = NoException /\ S'.enemies[i] = r.value]_vars

Sign(n) == IF n > 0 THEN 1 ELSE IF n < 0 THEN -1 ELSE 0

\* the position the stated preference order allows for enemy e: to is
\* (a) the diagonal cell, else (b) the horizontal one, else (c) the vertical
\* one, else (d) a Floor cardinal neighbour, else (e) e itself
Preferred(e, player, mapdata, to) ==
  LET dx == Sign(player[1] - e[1])
      dy == Sign(player[2] - e[2])
      a  == <<e[1] + dx, e[2] + dy>>
      b  == <<e[1] + dx, e[2]>>
      c  == <<e[1], e[2] + dy>>
      fl == { q \in Neighbours(e) : IsFloor(mapdata, q) }
  IN  IF dx # 0 /\ dy # 0 /\ IsFloor(mapdata, a) THEN to = a
      ELSE IF dx # 0 /\ IsFloor(mapdata, b) THEN to = b
      ELSE IF dy # 0 /\ IsFloor(mapdata, c) THEN to = c
      ELSE IF fl # {} THEN to \in fl
      ELSE to = e

\* C15: the step enemy_step computes for an enemy in a turn follows the
\* preference order: diagonal, horizontal, vertical, a Floor cardinal
\* neighbour, stay.
C15_PreferenceOrder ==
  [][\A d \in Cardinal :
       ( /\ ~S.game_over
         /\ IsFloor(S.map, Candidate(S, d))
         /\ Call(d[1], d[2]) )
       => \A i \in DOMAIN S.enemies :
            LET r == enemy_step(S.enemies[i], S'.player, S.map)
            IN  /\ r.exc = NoException
                /\ Preferred(S.enemies[i], S'.player, S.map, r.value)]_vars

\* the centre of the k-th room, as lines 129-132 compute it
room_centre(seed, k) ==
  LET r == room(seed, k)
  IN  <<r[1] + (r[3] \div 2), r[2] + (r[4] \div 2)>>

\* the Floor cells a path of 4-adjacent Floor cells joins to the cells seen
RECURSIVE Flood(_, _, _)
Flood(mapdata, seen, frontier) ==
  IF frontier = {} THEN seen
  ELSE LET next == { q \in UNION { Neighbours(p) : p \in frontier } :
                       IsFloor(mapdata, q) /\ q \notin seen }
       IN  Flood(mapdata, seen \cup next, next)

\* C17: in the grid of make_map, as the initialisation or the restart
\* stores it, the centre of every room is Floor, and a path of 4-adjacent
\* Floor cells joins the centre of the first room to the centre of every
\* other room.
C17_RoomsConnected ==
  Fresh(S) =>
  LET centres == { room_centre(S.seed, k) : k \in 0..(NumRooms - 1) }
      first   == room_centre(S.seed, 0)
  IN  /\ \A c \in centres : IsFloor(S.map, c)
      /\ centres \subseteq Flood(S.map, {first}, {first})

\* a grid in which a corridor has carved through a scattered wall that lay
\* on the centre of a room
C17_Witness ==
  \E k \in 0..(NumRooms - 1) :
    /\ room_centre(S.seed, k) \in scatter_cells(S.seed)
    /\ room_centre(S.seed, k) \in corridor_cells(rooms(S.seed))
    /\ IsFloor(S.map, room_centre(S.seed, k))

\* the flagged rune positions that still hold a pickup
RunesLeft(s) == s.runas_positions \cap Range(s.coins)

\* C18: generation flags exactly total_runes of the pickup positions, and in
\* every state runes_collected plus the number of flagged positions still
\* in the pickup set is total_runes, so 0 <= runes_collected <= total_runes.
C18_RuneAccounting ==
  /\ Fresh(S) => ( /\ Cardinality(S.runas_positions) = S.total_runas
                   /\ S.runas_positions \subseteq Range(S.coins) )
  /\ S.runas_collected + Cardinality(RunesLeft(S)) = S.total_runas
  /\ S.runas_collected \in 0..S.total_runas

\* every rune and a fragment have been picked up
C18_Witness ==
  /\ S.runas_collected = S.total_runas
  /\ RunesLeft(S) = {}
  /\ Len(S.coins) < NumCoins - TotalRunas

Abs(n) == IF n < 0 THEN -n ELSE n

\* C19: the player and every enemy are always in bounds and on a Floor cell;
\* in a call of attempt_move the player moves to a cardinal neighbour or not
\* at all, and every enemy moves by at most one cell along each axis.
C19_OnFloor ==
  /\ [](/\ IsFloor(S.map, S.player)
        /\ \A i \in DOMAIN S.enemies : IsFloor(S.map, S.enemies[i]))
  /\ [][\A d \in Cardinal :
          Call(d[1], d[2]) =>
            /\ S'.player = S.player \/ S'.player \in Neighbours(S.player)
            /\ Len(S'.enemies) = Len(S.enemies)
            /\ \A i \in DOMAIN S.enemies :
                 /\ Abs(S'.enemies[i][1] - S.enemies[i][1]) <= 1
                 /\ Abs(S'.enemies[i][2] - S.enemies[i][2]) <= 1]_vars

\* three moves into an episode, the player stands next to a Wall and the
\* last call was rejected
C19_Witness ==
  /\ S.moves >= 3
  /\ last_call = Blocked
  /\ \E q \in Neighbours(S.player) : ~IsFloor(S.map, q)

====
